---- MODULE Spec2Model ----
(***************************************************************************)
(* GCP Billing Watcher: the BillingService client (table discovery,        *)
(* aggregate query, result mapping, caches) and the extension entry point  *)
(* that owns it (initialize, fetchAndUpdate, timer) as state machines.     *)
(*                                                                         *)
(* Strings the code inspects character by character (table ids, numeric    *)
(* wire fields, period keys) are sequences of one-character strings.       *)
(* A value that may be null is a sequence of length 0 (null) or 1.         *)
(***************************************************************************)
EXTENDS Integers, Sequences, FiniteSets, TLC

\* ------------------------------------------------------------------ bounds
\* Longest table listing the BigQuery tables.list response carries.
MaxTables == 2
\* Range of the UTC year of "now" in the period-key specification.
MinYear == 2023
MaxYear == 2027
\* How many BillingService instances initialize constructs in a run.
MaxInstances == 3
\* How many fetches fetchAndUpdate may be awaiting on one instance.
MaxInFlight == 2

\* ------------------------------------------------------- optional values
None == <<>>
Some(x) == <<x>>
IsSome(o) == o # <<>>
Get(o) == o[1]

\* ------------------------------------------------------------ table ids
PrefixV1 == <<"g", "c", "p", "_", "b", "i", "l", "l", "i", "n", "g", "_", "e", "x", "p", "o", "r", "t", "_", "v", "1">>
PrefixResourceV1 == <<"g", "c", "p", "_", "b", "i", "l", "l", "i", "n", "g", "_", "e", "x", "p", "o", "r", "t", "_", "r", "e", "s", "o", "u", "r", "c", "e", "_", "v", "1">>
TableV1 == <<"g", "c", "p", "_", "b", "i", "l", "l", "i", "n", "g", "_", "e", "x", "p", "o", "r", "t", "_", "v", "1", "_", "A", "1">>
TableResourceV1 == <<"g", "c", "p", "_", "b", "i", "l", "l", "i", "n", "g", "_", "e", "x", "p", "o", "r", "t", "_", "r", "e", "s", "o", "u", "r", "c", "e", "_", "v", "1", "_", "A", "1">>
TableNearMiss == <<"g", "c", "p", "_", "b", "i", "l", "l", "i", "n", "g", "_", "e", "x", "p", "o", "r", "t", "_", "v">>
\* The table ids a dataset of the model may list.
TableIds == {TableV1, TableResourceV1, TableNearMiss}

\* String.prototype.startsWith
startsWith(s, p) == Len(s) >= Len(p) /\ SubSeq(s, 1, Len(p)) = p

\* The predicate handed to Array.prototype.find: only the per-account prefix.
isBillingTableV1Only(tableId) == startsWith(tableId, PrefixV1)
\* The predicate handed to Array.prototype.find.
isBillingTable(tableId) ==
    \/ startsWith(tableId, PrefixV1)
    \/ startsWith(tableId, PrefixResourceV1)

\* Array.prototype.find: the first element the predicate accepts, or undefined.
RECURSIVE findFrom(_, _)
findFrom(tables, i) ==
    IF i > Len(tables) THEN None
    ELSE IF isBillingTable(tables[i]) THEN Some(tables[i])
    ELSE findFrom(tables, i + 1)
findBillingTable(tables) == findFrom(tables, 1)

\* Error messages of discoverBillingTableName and of the transport.
ErrNoTables == "No tables found in dataset"
ErrNoBillingTable == "No billing export table found in dataset"
ErrAuth == "AuthError"
ErrTransport == "TransportError"

\* Outcome of the part of discoverBillingTableName that follows the listing
\* response, with a fallback to the first listed table when nothing matches.
resolveListingFallback(tables) ==
    IF ~IsSome(tables) \/ Len(Get(tables)) = 0
    THEN [ok |-> FALSE, table |-> <<>>, error |-> ErrNoTables]
    ELSE LET billingTable == findBillingTable(Get(tables))
         IN  IF ~IsSome(billingTable)
             THEN [ok |-> TRUE, table |-> Get(tables)[1], error |-> ""]
             ELSE [ok |-> TRUE, table |-> Get(billingTable), error |-> ""]
\* Outcome of the part of discoverBillingTableName that follows the listing
\* response: the table id to memoize, or the error thrown.
resolveListing(tables) ==
    IF ~IsSome(tables) \/ Len(Get(tables)) = 0
    THEN [ok |-> FALSE, table |-> <<>>, error |-> ErrNoTables]
    ELSE LET billingTable == findBillingTable(Get(tables))
         IN  IF ~IsSome(billingTable)
             THEN [ok |-> FALSE, table |-> <<>>, error |-> ErrNoBillingTable]
             ELSE [ok |-> TRUE, table |-> Get(billingTable), error |-> ""]

\* ------------------------------------------------------------- numbers
\* A JavaScript number of the model: NaN, or the decimal m * 10^(-e) with no
\* trailing zero digit kept in the fraction.
NaN == [nan |-> TRUE, m |-> 0, e |-> 0]
Dec(m, e) == [nan |-> FALSE, m |-> m, e |-> e]
Zero == Dec(0, 0)

RECURSIVE Normalize(_, _)
Normalize(m, e) ==
    IF e > 0 /\ m % 10 = 0 THEN Normalize(m \div 10, e - 1) ELSE Dec(m, e)

Digits == <<"0", "1", "2", "3", "4", "5", "6", "7", "8", "9">>
IsDigit(c) == \E d \in 1..10 : Digits[d] = c
DigitVal(c) == (CHOOSE d \in 1..10 : Digits[d] = c) - 1
IsWhiteSpace(c) == c \in {" ", "\t", "\n"}

RECURSIVE TrimStart(_)
TrimStart(s) ==
    IF s # <<>> /\ IsWhiteSpace(s[1]) THEN TrimStart(Tail(s)) ELSE s

\* Length of the run of decimal digits of s that starts at index i.
RECURSIVE DigitRun(_, _)
DigitRun(s, i) ==
    IF i <= Len(s) /\ IsDigit(s[i]) THEN 1 + DigitRun(s, i + 1) ELSE 0

RECURSIVE DigitsValue(_)
DigitsValue(s) ==
    IF s = <<>> THEN 0
    ELSE 10 * DigitsValue(SubSeq(s, 1, Len(s) - 1)) + DigitVal(s[Len(s)])

RECURSIVE Pow10(_)
Pow10(n) == IF n = 0 THEN 1 ELSE 10 * Pow10(n - 1)

\* parseFloat: skips leading white space, reads the longest prefix that is
\* a decimal literal (sign, digits, '.', digits) and ignores what follows;
\* NaN when that prefix holds no digit.  Exponents and "Infinity" are not
\* modelled: no wire field of the model holds one.
parseFloat(str) ==
    LET t == TrimStart(str)
        signed == t # <<>> /\ t[1] \in {"+", "-"}
        neg == t # <<>> /\ t[1] = "-"
        u == IF signed THEN Tail(t) ELSE t
        n == DigitRun(u, 1)
        hasDot == n < Len(u) /\ u[n + 1] = "."
        f == IF hasDot THEN DigitRun(u, n + 2) ELSE 0
        mant == DigitsValue(SubSeq(u, 1, n)) * Pow10(f)
                  + DigitsValue(SubSeq(u, n + 2, n + 1 + f))
    IN  IF n = 0 /\ f = 0 THEN NaN
        ELSE Normalize(IF neg THEN 0 - mant ELSE mant, f)

\* ------------------------------------------------------- query response
\* Wire values of the field slots (the "v" of a slot; null is None).
V12_34 == Some(<<"1", "2", ".", "3", "4">>)
V7 == Some(<<"7">>)
V50_00 == Some(<<"5", "0", ".", "0", "0">>)
V200_00 == Some(<<"2", "0", "0", ".", "0", "0">>)
VNotANumber == Some(<<"N", "/", "A">>)
VJPY == Some(<<"J", "P", "Y">>)
VUSD == Some(<<"U", "S", "D">>)
VNull == None

Row(f) == [f |-> f]
RowFull == Row(<<V12_34, V7, V50_00, V200_00, VJPY>>)
RowSpecExample == Row(<<V12_34, VNull, V50_00, V200_00, VUSD>>)
RowNull0 == Row(<<VNull, V7, V50_00, V200_00, VJPY>>)
RowNull2 == Row(<<V12_34, V7, VNull, V200_00, VJPY>>)
RowNull3 == Row(<<V12_34, V7, V50_00, VNull, VJPY>>)
RowAllNull == Row(<<VNull, VNull, VNull, VNull, VNull>>)
RowNoCurrency == Row(<<V12_34, V7, V50_00, V200_00, VNull>>)
RowShort == Row(<<V12_34, V7, V50_00, V200_00>>)
RowEmpty == Row(<<>>)
RowSix == Row(<<V12_34, V7, V50_00, V200_00, VJPY, V7>>)
RowNonNumeric == Row(<<VNotANumber, V7, V50_00, V200_00, VJPY>>)
Rows == {RowFull, RowSpecExample, RowNull0, RowNull2, RowNull3, RowAllNull,
         RowNoCurrency, RowShort, RowEmpty, RowSix, RowNonNumeric}

\* The "rows" member of the query responses of the model: absent, empty, one
\* row, or two rows of which only the first is read.
RowsMembers ==
    {None, Some(<<>>)} \cup {Some(<<r>>) : r \in Rows}
      \cup {Some(<<RowShort, RowFull>>), Some(<<RowFull, RowAllNull>>)}

\* The responses drawn while two fetches may overlap: every shape that takes
\* the default branch, and two rows that are mapped.
RowsMembersOverlap ==
    {None, Some(<<>>), Some(<<RowShort>>), Some(<<RowEmpty>>),
     Some(<<RowShort, RowFull>>), Some(<<RowFull>>), Some(<<RowSpecExample>>)}

\* v ?? d
Coalesce(v, d) == IF IsSome(v) THEN Get(v) ELSE d

BillingCost(a, l, t, y, c) ==
    [amount |-> a, lastMonthAmount |-> l, last3MonthsAmount |-> t,
     yearlyAmount |-> y, currency |-> c]

\* The BillingCost literal built from a row, with the first two amount slots
\* taken in the wrong order.
costOfRowSwapped(row) ==
    BillingCost(parseFloat(Coalesce(row.f[2], <<"0">>)),
                parseFloat(Coalesce(row.f[1], <<"0">>)),
                parseFloat(Coalesce(row.f[3], <<"0">>)),
                parseFloat(Coalesce(row.f[4], <<"0">>)),
                Coalesce(row.f[5], Get(VUSD)))
\* The BillingCost literal built from a row of at least five slots (slots
\* are numbered from 1 here, from 0 in the code).
costOfRow(row) ==
    BillingCost(parseFloat(Coalesce(row.f[1], <<"0">>)),
                parseFloat(Coalesce(row.f[2], <<"0">>)),
                parseFloat(Coalesce(row.f[3], <<"0">>)),
                parseFloat(Coalesce(row.f[4], <<"0">>)),
                Coalesce(row.f[5], Get(VUSD)))

\* defaultCost
defaultCost == BillingCost(Zero, Zero, Zero, Zero, Get(VUSD))

\* Whether the response takes the row branch: rows present and non-empty,
\* and the first row has at least five slots.
hasCostRow(rows) ==
    /\ IsSome(rows)
    /\ Len(Get(rows)) > 0
    /\ Len(Get(rows)[1].f) >= 5

\* The summary fetchCurrentMonthCost returns for a query response.
costOfResponse(rows) ==
    IF hasCostRow(rows) THEN costOfRow(Get(rows)[1]) ELSE defaultCost

\* this.lastCost after the response, were the fallback branch not to store.
lastCostAfterNoFallbackStore(rows, old) ==
    IF hasCostRow(rows) THEN Some(costOfResponse(rows)) ELSE old
\* this.lastCost after the response has been mapped: both branches store
\* the summary they return.
lastCostAfter(rows, old) == Some(costOfResponse(rows))

\* ---------------------------------------------------------- period keys
\* String(n) for n >= 0
RECURSIVE String(_)
String(n) == IF n < 10 THEN <<Digits[n + 1]>> ELSE String(n \div 10) \o <<Digits[(n % 10) + 1]>>

\* String.prototype.padStart(2, "0")
padStart2(s) == IF Len(s) >= 2 THEN s ELSE <<"0">> \o s

\* new Date(year, monthIndex, 1), read back with getFullYear() and getMonth():
\* a month index outside 0..11 carries into the year.
DateOf(year, monthIndex) ==
    [fullYear |-> year + (monthIndex \div 12), month |-> monthIndex % 12]

\* The previous month's key by arithmetic on the month number alone.
lastMonthKeyNoRollover(year, month) == String(year) \o padStart2(String(month - 1))
\* lastMonth
lastMonthKey(year, month) ==
    LET lastMonthDate == DateOf(year, month - 2)
    IN  String(lastMonthDate.fullYear) \o padStart2(String(lastMonthDate.month + 1))

\* threeMonthsAgo
threeMonthsAgoKey(year, month) ==
    LET threeMonthsAgoDate == DateOf(year, month - 4)
    IN  String(threeMonthsAgoDate.fullYear)
          \o padStart2(String(threeMonthsAgoDate.month + 1))

\* currentMonth
currentMonthKey(year, month) == String(year) \o padStart2(String(month))

\* The period keys the query text is built from.
periodKeys(year, month) ==
    [currentMonth |-> currentMonthKey(year, month),
     lastMonth |-> lastMonthKey(year, month),
     threeMonthsAgo |-> threeMonthsAgoKey(year, month),
     yearPrefix |-> String(year)]

\* a <= b for strings of decimal digits, as SQL compares STRING values
\* (character by character, a proper prefix first).
RECURSIVE StrLeq(_, _)
StrLeq(a, b) ==
    IF a = <<>> THEN TRUE
    ELSE IF b = <<>> THEN FALSE
    ELSE IF a[1] = b[1] THEN StrLeq(Tail(a), Tail(b))
    ELSE DigitVal(a[1]) < DigitVal(b[1])

\* The invoice.month values an export table can hold around the modelled
\* years: every calendar month, as YYYYMM.
InvoiceMonths ==
    {String(y) \o padStart2(String(m)) : y \in (MinYear - 1)..MaxYear, m \in 1..12}

\* The invoice months the third conditional sum of the query adds up.
last3MonthsWindow(k) ==
    {p \in InvoiceMonths : StrLeq(k.threeMonthsAgo, p) /\ StrLeq(p, k.currentMonth)}

\* ------------------------------------------------------------------ state
VARIABLES
    projectId,        \* BillingService.projectId
    strictSsl,        \* BillingService.strictSsl
    lastCost,         \* BillingService.lastCost (null is None)
    cachedTableName,  \* BillingService.cachedTableName (null is <<>>)
    callers,          \* each caller's position in fetchCurrentMonthCost and
                      \* the request it has in flight
    last,             \* the last call or continuation that ran: who, what,
                      \* the response it consumed and what it returned
    lastReturned,     \* what the most recent fetch that succeeded returned
    resolvedUnder,    \* the project whose listing produced cachedTableName
    now,              \* the UTC year and month of "new Date()"
    keys              \* the period keys computed from now (None before)

\* The module-level state of the extension entry point, and what it owns.
VARIABLES
    phase,            \* "inactive", "active" (activate has run) or
                      \* "deactivated"
    configProjectId,  \* the gcpBilling.projectId setting ("" when unset)
    billingService,   \* the module-level BillingService: 0 is null, n the
                      \* n-th instance constructed
    created,          \* how many BillingService instances were constructed
    refreshInterval,  \* the module-level timer handle: 0 is undefined
    timers,           \* the interval timers that are active (their handles)
    statusBar,        \* what the status bar item shows, and the instance
                      \* whose fetch produced it (0: none)
    inFlight,         \* per instance, the fetchCurrentMonthCost calls that
                      \* fetchAndUpdate awaits
    menuOpen,         \* the quick pick of gcpBilling.menu is showing
    promptOpen        \* the "project ID is not set" dialog is showing

extVars == <<phase, configProjectId, billingService, created, refreshInterval,
             timers, statusBar, inFlight, menuOpen, promptOpen>>

svcVars == <<projectId, strictSsl, lastCost, cachedTableName, callers, last,
             lastReturned, resolvedUnder, now, keys>>

vars == <<projectId, strictSsl, lastCost, cachedTableName, callers, last,
          lastReturned, resolvedUnder, now, keys, extVars>>

\* The configured project identifiers of the model.
Projects == {"proj-a", "proj-b"}
\* constructor default of datasetId
DatasetId == "billing_export"
\* The call chains that may each have one fetchCurrentMonthCost in progress.
Callers == {"timer", "refresh"}

NoInput == [kind |-> "none", tables |-> None, rows |-> None]
TablesInput(tables) == [kind |-> "tables", tables |-> tables, rows |-> None]
RowsInput(rows) == [kind |-> "rows", tables |-> None, rows |-> rows]
ErrorInput == [kind |-> "error", tables |-> None, rows |-> None]

NoResult == [kind |-> "none", cost |-> None, error |-> ""]
Returned(cost) == [kind |-> "returned", cost |-> Some(cost), error |-> ""]
Threw(e) == [kind |-> "threw", cost |-> None, error |-> e]
Read(cost) == [kind |-> "read", cost |-> cost, error |-> ""]

Event(by, op, input, result) ==
    [by |-> by, op |-> op, input |-> input, result |-> result]

Idle == [pc |-> "idle", req |-> None]

\* getRequestOptions: adds the agent that does not reject unauthorized
\* certificates when strictSsl is off.
getRequestOptions(options) ==
    IF ~strictSsl THEN [options EXCEPT !.relaxed = TRUE] ELSE options

\* The options of the table-listing request.
listRequest ==
    getRequestOptions(
        [method |-> "GET", project |-> projectId, dataset |-> DatasetId,
         table |-> <<>>, periods |-> None, relaxed |-> FALSE])

\* The options of the query request: the URL's project, the table of the
\* FROM clause and the period keys of the conditional sums.
queryRequest(tableName) ==
    [method |-> "POST", project |-> projectId, dataset |-> DatasetId,
     table |-> tableName, periods |-> Some(periodKeys(now.year, now.month)),
     relaxed |-> FALSE]

\* The listings a tables.list response may carry ("tables" absent is None).
Listings ==
    {None} \cup {Some(t) : t \in UNION {[1..n -> TableIds] : n \in 0..MaxTables}}

\* The extension's module-level state before activate has run.
initialStatusBar == [text |-> "--", inst |-> 0]
extensionNotActivated ==
    /\ phase = "inactive"
    /\ billingService = 0
    /\ created = 0
    /\ refreshInterval = 0
    /\ timers = {}
    /\ statusBar = initialStatusBar
    /\ inFlight = <<>>
    /\ menuOpen = FALSE
    /\ promptOpen = FALSE

Init ==
    /\ projectId \in Projects
    /\ strictSsl \in BOOLEAN
    /\ lastCost = None
    /\ cachedTableName = <<>>
    /\ callers = [c \in Callers |-> Idle]
    /\ last = Event("", "new", NoInput, NoResult)
    /\ lastReturned = None
    /\ resolvedUnder = ""
    /\ now = [year |-> 2025, month |-> 1]
    /\ keys = None
    /\ configProjectId = ""
    /\ extensionNotActivated

\* fetchCurrentMonthCost up to its first await (auth.getClient()).
fetchCurrentMonthCost(c) ==
    /\ callers[c].pc = "idle"
    /\ callers' = [callers EXCEPT ![c] = [pc |-> "getClient", req |-> None]]
    /\ last' = Event(c, "fetch", NoInput, NoResult)
    /\ UNCHANGED <<projectId, strictSsl, lastCost, cachedTableName,
                   lastReturned, resolvedUnder, now, keys, extVars>>

\* auth.getClient() rejects, in fetchCurrentMonthCost or in
\* discoverBillingTableName: the fetch rethrows.
getClientRejects(c) ==
    /\ callers[c].pc \in {"getClient", "discoverGetClient"}
    /\ callers' = [callers EXCEPT ![c] = Idle]
    /\ last' = Event(c, "getClient", ErrorInput, Threw(ErrAuth))
    /\ UNCHANGED <<projectId, strictSsl, lastCost, cachedTableName,
                   lastReturned, resolvedUnder, now, keys, extVars>>

\* The continuation after the first getClient(): discoverBillingTableName
\* returns the memoized name, and the query request goes out; or, with
\* nothing memoized, it awaits its own getClient().
discoverBillingTableName(c) ==
    /\ callers[c].pc = "getClient"
    /\ IF cachedTableName # <<>>
       THEN callers' = [callers EXCEPT ![c] =
                [pc |-> "querying", req |-> Some(queryRequest(cachedTableName))]]
       ELSE callers' = [callers EXCEPT ![c] =
                [pc |-> "discoverGetClient", req |-> None]]
    /\ last' = Event(c, "discover", NoInput, NoResult)
    /\ UNCHANGED <<projectId, strictSsl, lastCost, cachedTableName,
                   lastReturned, resolvedUnder, now, keys, extVars>>

\* discoverBillingTableName sends the table-listing request.
requestTables(c) ==
    /\ callers[c].pc = "discoverGetClient"
    /\ callers' = [callers EXCEPT ![c] = [pc |-> "listing", req |-> Some(listRequest)]]
    /\ last' = Event(c, "requestTables", NoInput, NoResult)
    /\ UNCHANGED <<projectId, strictSsl, lastCost, cachedTableName,
                   lastReturned, resolvedUnder, now, keys, extVars>>

\* The listing response arrives: discoverBillingTableName throws, or
\* memoizes the table and returns it, and the query request goes out.
tablesResponse(c, tables) ==
    /\ callers[c].pc = "listing"
    /\ LET r == resolveListing(tables)
       IN  IF r.ok
           THEN /\ cachedTableName' = r.table
                /\ resolvedUnder' = Get(callers[c].req).project
                /\ callers' = [callers EXCEPT ![c] =
                       [pc |-> "querying", req |-> Some(queryRequest(r.table))]]
                /\ last' = Event(c, "tables", TablesInput(tables), NoResult)
           ELSE /\ callers' = [callers EXCEPT ![c] = Idle]
                /\ last' = Event(c, "tables", TablesInput(tables), Threw(r.error))
                /\ UNCHANGED <<cachedTableName, resolvedUnder>>
    /\ UNCHANGED <<projectId, strictSsl, lastCost, lastReturned, now, keys, extVars>>

\* client.request rejects, and the catch block also drops the cached summary.
requestRejectsClearing(c) ==
    /\ callers[c].pc \in {"listing", "querying"}
    /\ callers' = [callers EXCEPT ![c] = Idle]
    /\ lastCost' = None
    /\ last' = Event(c, "request", ErrorInput, Threw(ErrTransport))
    /\ UNCHANGED <<projectId, strictSsl, cachedTableName, lastReturned,
                   resolvedUnder, now, keys, extVars>>
\* client.request rejects (network failure, non-2xx status): the fetch
\* rethrows.
requestRejects(c) ==
    /\ callers[c].pc \in {"listing", "querying"}
    /\ callers' = [callers EXCEPT ![c] = Idle]
    /\ last' = Event(c, "request", ErrorInput, Threw(ErrTransport))
    /\ UNCHANGED <<projectId, strictSsl, lastCost, cachedTableName,
                   lastReturned, resolvedUnder, now, keys, extVars>>

\* The query response arrives: the row (or the default) is mapped, stored in
\* lastCost and returned.
rowsResponse(c, rows) ==
    /\ callers[c].pc = "querying"
    /\ lastCost' = lastCostAfter(rows, lastCost)
    /\ lastReturned' = Some(costOfResponse(rows))
    /\ callers' = [callers EXCEPT ![c] = Idle]
    /\ last' = Event(c, "rows", RowsInput(rows), Returned(costOfResponse(rows)))
    /\ UNCHANGED <<projectId, strictSsl, cachedTableName, resolvedUnder, now, keys, extVars>>

\* getCachedCost
getCachedCost ==
    /\ last' = Event("", "getCachedCost", NoInput, Read(lastCost))
    /\ UNCHANGED <<projectId, strictSsl, lastCost, cachedTableName, callers,
                   lastReturned, resolvedUnder, now, keys, extVars>>

\* setProjectId that also forgets the memoized table.
setProjectIdClearing(p) ==
    /\ projectId' = p
    /\ cachedTableName' = <<>>
    /\ last' = Event("", "setProjectId", NoInput, NoResult)
    /\ UNCHANGED <<strictSsl, lastCost, callers, lastReturned, resolvedUnder,
                   now, keys, extVars>>
\* setProjectId
setProjectId(p) ==
    /\ projectId' = p
    /\ last' = Event("", "setProjectId", NoInput, NoResult)
    /\ UNCHANGED <<strictSsl, lastCost, cachedTableName, callers, lastReturned,
                   resolvedUnder, now, keys, extVars>>

Next ==
    \/ \E c \in Callers : fetchCurrentMonthCost(c)
    \/ \E c \in Callers : getClientRejects(c)
    \/ \E c \in Callers : discoverBillingTableName(c)
    \/ \E c \in Callers : requestTables(c)
    \/ \E c \in Callers, tables \in Listings : tablesResponse(c, tables)
    \/ \E c \in Callers : requestRejects(c)
    \/ \E c \in Callers, rows \in RowsMembersOverlap : rowsResponse(c, rows)
    \/ getCachedCost
    \/ \E p \in Projects : setProjectId(p)

Spec == Init /\ [][Next]_vars

\* ------------------------------------------- one caller, every response
\* A caller that awaits each fetch before the next, under every query
\* response of the model.
NextOneCaller ==
    \/ fetchCurrentMonthCost("refresh")
    \/ getClientRejects("refresh")
    \/ discoverBillingTableName("refresh")
    \/ requestTables("refresh")
    \/ \E tables \in Listings : tablesResponse("refresh", tables)
    \/ requestRejects("refresh")
    \/ \E rows \in RowsMembers : rowsResponse("refresh", rows)
    \/ getCachedCost
    \/ \E p \in Projects : setProjectId(p)

SpecOneCaller == Init /\ [][NextOneCaller]_vars

\* ------------------------------------------- period keys, on their own
\* The state before the period keys of a fetch are computed, at any month
\* of the modelled years.
InitPeriods ==
    /\ projectId = "proj-a"
    /\ strictSsl = TRUE
    /\ lastCost = None
    /\ cachedTableName = <<>>
    /\ callers = [c \in Callers |-> Idle]
    /\ last = Event("", "new", NoInput, NoResult)
    /\ lastReturned = None
    /\ resolvedUnder = ""
    /\ now \in [year : MinYear..MaxYear, month : 1..12]
    /\ keys = None
    /\ configProjectId = ""
    /\ extensionNotActivated

\* The period keys fetchCurrentMonthCost computes from "now".
computePeriodKeys ==
    /\ keys = None
    /\ keys' = Some(periodKeys(now.year, now.month))
    /\ UNCHANGED <<projectId, strictSsl, lastCost, cachedTableName, callers,
                   last, lastReturned, resolvedUnder, now, extVars>>

NextPeriods == computePeriodKeys

SpecPeriods == InitPeriods /\ [][NextPeriods]_vars

\* ------------------------------------------------- the extension entry point
\* The values the gcpBilling.projectId setting takes.
ConfigProjectIds == {""} \cup Projects

\* The first part of fetchAndUpdate, up to its await, run on the state
\* (service, bar, calls) that the caller has reached: without a service it
\* shows "not configured"; with one it shows "loading" and calls
\* fetchCurrentMonthCost on it.  The steps of that call are those of Spec;
\* here it is a call in flight on the instance until it settles.
fetchAndUpdate(service, calls) ==
    IF service = 0
    THEN /\ statusBar' = [text |-> "notConfigured", inst |-> 0]
         /\ inFlight' = calls
    ELSE /\ statusBar' = [text |-> "loading", inst |-> 0]
         /\ inFlight' = [calls EXCEPT ![service] = @ + 1]

\* The active timers after initialize has left its old timer running.
timersAfterNoClear == timers
\* The active timers after initialize has cleared the timer it holds.
timersAfterClear ==
    IF refreshInterval # 0 THEN timers \ {refreshInterval} ELSE timers

\* initialize, with the configuration read as projectIdSetting: clears the
\* timer it holds; without a project ID shows "not configured", drops the
\* service and opens the dialog; with one constructs a new BillingService,
\* starts the first fetch on it and sets the periodic timer.
initialize(projectIdSetting) ==
    IF projectIdSetting = ""
    THEN /\ timers' = timersAfterClear
         /\ refreshInterval' = 0
         /\ statusBar' = [text |-> "notConfigured", inst |-> 0]
         /\ billingService' = 0
         /\ promptOpen' = TRUE
         /\ UNCHANGED <<created, inFlight>>
    ELSE /\ created < MaxInstances
         /\ created' = created + 1
         /\ billingService' = created + 1
         /\ fetchAndUpdate(created + 1, inFlight @@ ((created + 1) :> 0))
         /\ refreshInterval' = created + 1
         /\ timers' = timersAfterClear \cup {created + 1}
         /\ UNCHANGED promptOpen

\* activate: creates the status bar item, registers the commands and the
\* configuration listener, and runs initialize.
activate ==
    /\ phase = "inactive"
    /\ phase' = "active"
    /\ initialize(configProjectId)
    /\ UNCHANGED <<configProjectId, menuOpen, svcVars>>

\* The gcpBilling configuration changes (projectId to p, or another setting
\* with projectId left at p): the listener runs initialize.  After
\* deactivation the listener is disposed and only the setting changes.
changeConfiguration(p) ==
    /\ phase # "inactive"
    /\ configProjectId' = p
    /\ IF phase = "active"
       THEN initialize(p)
       ELSE UNCHANGED <<billingService, created, refreshInterval, timers,
                        statusBar, inFlight, promptOpen>>
    /\ UNCHANGED <<phase, menuOpen, svcVars>>

\* The dialog of promptForProjectId is closed without a project ID.  (A
\* project ID entered in it is a changeConfiguration step.)
dismissPrompt ==
    /\ promptOpen
    /\ promptOpen' = FALSE
    /\ UNCHANGED <<phase, configProjectId, billingService, created,
                   refreshInterval, timers, statusBar, inFlight, menuOpen,
                   svcVars>>

\* A tick of an active interval timer: fetchAndUpdate on the module-level
\* service.
timerTick ==
    /\ timers # {}
    /\ billingService # 0 => inFlight[billingService] < MaxInFlight
    /\ fetchAndUpdate(billingService, inFlight)
    /\ UNCHANGED <<phase, configProjectId, billingService, created,
                   refreshInterval, timers, menuOpen, promptOpen, svcVars>>

\* The gcpBilling.refresh command (also the status bar item's click).
refreshCommand ==
    /\ phase = "active"
    /\ billingService # 0 => inFlight[billingService] < MaxInFlight
    /\ fetchAndUpdate(billingService, inFlight)
    /\ UNCHANGED <<phase, configProjectId, billingService, created,
                   refreshInterval, timers, menuOpen, promptOpen, svcVars>>

\* The gcpBilling.menu command shows its quick pick and awaits the choice.
menuCommand ==
    /\ phase = "active"
    /\ ~menuOpen
    /\ menuOpen' = TRUE
    /\ UNCHANGED <<phase, configProjectId, billingService, created,
                   refreshInterval, timers, statusBar, inFlight, promptOpen,
                   svcVars>>

\* "refresh" is picked in the menu: fetchAndUpdate.
menuRefresh ==
    /\ phase = "active"
    /\ menuOpen
    /\ menuOpen' = FALSE
    /\ billingService # 0 => inFlight[billingService] < MaxInFlight
    /\ fetchAndUpdate(billingService, inFlight)
    /\ UNCHANGED <<phase, configProjectId, billingService, created,
                   refreshInterval, timers, promptOpen, svcVars>>

\* Another entry is picked in the menu, or none.
menuOther ==
    /\ menuOpen
    /\ menuOpen' = FALSE
    /\ UNCHANGED <<phase, configProjectId, billingService, created,
                   refreshInterval, timers, statusBar, inFlight, promptOpen,
                   svcVars>>

\* A fetchCurrentMonthCost call on instance i resolves: the rest of
\* fetchAndUpdate's try block shows the cost.
fetchResolves(i) ==
    /\ i \in DOMAIN inFlight
    /\ inFlight[i] > 0
    /\ inFlight' = [inFlight EXCEPT ![i] = @ - 1]
    /\ statusBar' = [text |-> "cost", inst |-> i]
    /\ UNCHANGED <<phase, configProjectId, billingService, created,
                   refreshInterval, timers, menuOpen, promptOpen, svcVars>>

\* A fetchCurrentMonthCost call on instance i rejects: fetchAndUpdate's
\* catch block shows the error.
fetchRejects(i) ==
    /\ i \in DOMAIN inFlight
    /\ inFlight[i] > 0
    /\ inFlight' = [inFlight EXCEPT ![i] = @ - 1]
    /\ statusBar' = [text |-> "error", inst |-> i]
    /\ UNCHANGED <<phase, configProjectId, billingService, created,
                   refreshInterval, timers, menuOpen, promptOpen, svcVars>>

\* deactivate: clears the timer the module holds.
deactivate ==
    /\ phase = "active"
    /\ phase' = "deactivated"
    /\ timers' = timersAfterClear
    /\ menuOpen' = FALSE
    /\ UNCHANGED <<configProjectId, billingService, created, refreshInterval,
                   statusBar, inFlight, promptOpen, svcVars>>

InitExtension ==
    /\ projectId = "proj-a"
    /\ strictSsl = TRUE
    /\ lastCost = None
    /\ cachedTableName = <<>>
    /\ callers = [c \in Callers |-> Idle]
    /\ last = Event("", "new", NoInput, NoResult)
    /\ lastReturned = None
    /\ resolvedUnder = ""
    /\ now = [year |-> 2025, month |-> 1]
    /\ keys = None
    /\ configProjectId \in ConfigProjectIds
    /\ extensionNotActivated

NextExtension ==
    \/ activate
    \/ \E p \in ConfigProjectIds : changeConfiguration(p)
    \/ dismissPrompt
    \/ timerTick
    \/ refreshCommand
    \/ menuCommand
    \/ menuRefresh
    \/ menuOther
    \/ \E i \in 1..MaxInstances : fetchResolves(i)
    \/ \E i \in 1..MaxInstances : fetchRejects(i)
    \/ deactivate

SpecExtension == InitExtension /\ [][NextExtension]_vars

\* ================================================================ claims

\* ---- C1
\* Once a table name is memoized it stays the memoized name for good, and
\* every fetch that reaches discoverBillingTableName afterwards sends no
\* listing request: it goes straight to the query with that name.
C1_MemoizedForGood ==
    [][cachedTableName # <<>> =>
         /\ cachedTableName' = cachedTableName
         /\ last'.op = "discover" =>
              /\ callers'[last'.by].pc = "querying"
              /\ Get(callers'[last'.by].req).method = "POST"
              /\ Get(callers'[last'.by].req).table = cachedTableName]_vars

\* ---- C2
\* getCachedCost returns null before any fetch has succeeded and afterwards
\* what the most recent successful fetch returned (the all-zero default
\* included); a fetch that throws leaves lastCost as it was; getCachedCost
\* itself changes nothing and puts no request in flight.
C2_CachedIsLastReturned ==
    /\ [](/\ lastCost = lastReturned
          /\ last.op = "getCachedCost" => last.result = Read(lastReturned))
    /\ [][/\ last'.result.kind = "threw" => lastCost' = lastCost
          /\ last'.op = "getCachedCost" =>
               UNCHANGED <<projectId, strictSsl, lastCost, cachedTableName,
                           callers, lastReturned>>]_vars

\* getCachedCost has just returned the default summary a fetch stored.
C2_Witness ==
    /\ last.op = "getCachedCost"
    /\ last.result.cost = Some(defaultCost)

\* The all-zero summary, written out, and the responses that carry no
\* usable row.
ZeroUsd ==
    [amount |-> [nan |-> FALSE, m |-> 0, e |-> 0],
     lastMonthAmount |-> [nan |-> FALSE, m |-> 0, e |-> 0],
     last3MonthsAmount |-> [nan |-> FALSE, m |-> 0, e |-> 0],
     yearlyAmount |-> [nan |-> FALSE, m |-> 0, e |-> 0],
     currency |-> <<"U", "S", "D">>]

NoUsableRow(rows) ==
    \/ rows = None
    \/ Get(rows) = <<>>
    \/ Len(Get(rows)[1].f) < 5

\* ---- C3
\* A query response with no rows, or whose first row has fewer than five
\* slots, makes the fetch return, not throw: all four amounts 0, currency
\* "USD", and that summary is what lastCost then holds.
C3_EmptyResponseGivesZeroes ==
    (last.op = "rows" /\ NoUsableRow(last.input.rows)) =>
        /\ last.result.kind = "returned"
        /\ last.result.cost = <<ZeroUsd>>
        /\ lastCost = <<ZeroUsd>>

\* A four-slot first row (a five-slot row behind it) has just been answered
\* with the zero summary.
C3_Witness ==
    /\ last.op = "rows"
    /\ last.input.rows = Some(<<RowShort, RowFull>>)
    /\ lastCost = <<ZeroUsd>>

\* A listing without any table id that begins with a recognized prefix.
NoBillingTableListed(tables) ==
    \/ tables = None
    \/ \A i \in 1..Len(Get(tables)) :
          /\ ~startsWith(Get(tables)[i], PrefixV1)
          /\ ~startsWith(Get(tables)[i], PrefixResourceV1)

\* ---- C4
\* A listing that is absent, empty or without a table id beginning with a
\* recognized prefix makes resolution throw a not-found error: nothing is
\* memoized, the fetch ends with that error and sends no query request.
C4_NotFoundMemoizesNothing ==
    [][(last'.op = "tables" /\ NoBillingTableListed(last'.input.tables)) =>
         /\ last'.result.kind = "threw"
         /\ last'.result.error \in {ErrNoTables, ErrNoBillingTable}
         /\ cachedTableName' = cachedTableName
         /\ lastCost' = lastCost
         /\ callers'[last'.by] = Idle]_vars

\* A listing of tables that match no prefix has just been rejected on an
\* instance that has memoized nothing.
C4_Witness ==
    /\ last.op = "tables"
    /\ last.input.tables = Some(<<TableNearMiss, TableNearMiss>>)
    /\ last.result = Threw(ErrNoBillingTable)
    /\ cachedTableName = <<>>
    /\ callers[last.by].req = None

\* tables[i] begins with a recognized prefix and nothing before it does.
IsFirstMatch(tables, i) ==
    /\ i \in 1..Len(tables)
    /\ startsWith(tables[i], PrefixV1) \/ startsWith(tables[i], PrefixResourceV1)
    /\ \A j \in 1..(i - 1) :
          /\ ~startsWith(tables[j], PrefixV1)
          /\ ~startsWith(tables[j], PrefixResourceV1)

\* ---- C5
\* Resolution picks the first table of the listing whose id begins with the
\* per-account or the per-resource prefix: what comes before it matches
\* neither, and it is the table memoized and queried.
C5_FirstMatchWins ==
    (last.op = "tables" /\ ~NoBillingTableListed(last.input.tables)) =>
        \E i \in 1..Len(Get(last.input.tables)) :
            /\ IsFirstMatch(Get(last.input.tables), i)
            /\ cachedTableName = Get(last.input.tables)[i]
            /\ callers[last.by].pc = "querying"
            /\ Get(callers[last.by].req).table = Get(last.input.tables)[i]

\* A per-resource table listed after a table that matches no prefix has
\* just been chosen.
C5_Witness ==
    /\ last.op = "tables"
    /\ last.input.tables = Some(<<TableNearMiss, TableResourceV1>>)
    /\ cachedTableName = TableResourceV1

\* The number a wire value of the model writes down (null counts as 0).
NumberWritten(v) ==
    CASE v = None -> [nan |-> FALSE, m |-> 0, e |-> 0]
      [] v = V12_34 -> [nan |-> FALSE, m |-> 1234, e |-> 2]
      [] v = V7 -> [nan |-> FALSE, m |-> 7, e |-> 0]
      [] v = V50_00 -> [nan |-> FALSE, m |-> 50, e |-> 0]
      [] v = V200_00 -> [nan |-> FALSE, m |-> 200, e |-> 0]

HoldsNumberOrNull(v) == v \in {None, V12_34, V7, V50_00, V200_00}

\* ---- C6
\* A first row of at least five slots is mapped slot by slot: amount,
\* lastMonthAmount, last3MonthsAmount and yearlyAmount are the numbers
\* written in slots 0 to 3, a null amount slot is 0 whatever the other slots
\* hold, and currency is slot 4, or "USD" when that slot is null.
C6_RowMappedSlotBySlot ==
    (/\ last.op = "rows"
     /\ ~NoUsableRow(last.input.rows)) =>
        LET f == Get(last.input.rows)[1].f
            cost == Get(last.result.cost)
        IN  /\ last.result.kind = "returned"
            /\ HoldsNumberOrNull(f[1]) => cost.amount = NumberWritten(f[1])
            /\ HoldsNumberOrNull(f[2]) => cost.lastMonthAmount = NumberWritten(f[2])
            /\ HoldsNumberOrNull(f[3]) => cost.last3MonthsAmount = NumberWritten(f[3])
            /\ HoldsNumberOrNull(f[4]) => cost.yearlyAmount = NumberWritten(f[4])
            /\ cost.currency = (IF f[5] = None THEN <<"U", "S", "D">> ELSE f[5][1])

\* The row ["12.34", null, "50.00", "200.00", "USD"] has just been mapped.
C6_Witness ==
    /\ last.op = "rows"
    /\ last.input.rows = Some(<<RowSpecExample>>)
    /\ Get(last.result.cost).amount = [nan |-> FALSE, m |-> 1234, e |-> 2]
    /\ Get(last.result.cost).lastMonthAmount = [nan |-> FALSE, m |-> 0, e |-> 0]

\* The calendar month n months before (year, month), counted in months.
MonthsBefore(year, month, n) ==
    LET count == (year * 12 + (month - 1)) - n
    IN  [year |-> count \div 12, month |-> (count % 12) + 1]

IsKeyOf(key, ym) ==
    /\ Len(key) = 6
    /\ \A i \in 1..6 : IsDigit(key[i])
    /\ DigitsValue(SubSeq(key, 1, 4)) = ym.year
    /\ DigitsValue(SubSeq(key, 5, 6)) = ym.month
    /\ DigitsValue(SubSeq(key, 5, 6)) \in 1..12

\* ---- C7
\* For every year and month 1..12 of "now", the period keys are six-digit
\* YYYYMM strings with a month part in 01..12: currentMonth is now's month,
\* lastMonth the calendar month before it (December of the year before, in
\* January) and threeMonthsAgo the calendar month three before it, the year
\* going down when the count crosses January.
C7_PeriodKeys ==
    IsSome(keys) =>
        /\ IsKeyOf(Get(keys).currentMonth, [year |-> now.year, month |-> now.month])
        /\ IsKeyOf(Get(keys).lastMonth,
                   IF now.month = 1 THEN [year |-> now.year - 1, month |-> 12]
                   ELSE [year |-> now.year, month |-> now.month - 1])
        /\ IsKeyOf(Get(keys).threeMonthsAgo, MonthsBefore(now.year, now.month, 3))

\* "now" in January 2025 has given 202501, 202412 and 202410.
C7_Witness ==
    /\ now = [year |-> 2025, month |-> 1]
    /\ IsSome(keys)
    /\ Get(keys).currentMonth = <<"2", "0", "2", "5", "0", "1">>
    /\ Get(keys).lastMonth = <<"2", "0", "2", "4", "1", "2">>
    /\ Get(keys).threeMonthsAgo = <<"2", "0", "2", "4", "1", "0">>

\* ---- C8
\* The invoice months between threeMonthsAgo and currentMonth, both
\* included, which last3MonthsAmount adds up, are exactly three calendar
\* months.
C8_WindowIsThreeMonths ==
    IsSome(keys) => Cardinality(last3MonthsWindow(Get(keys))) = 3

\* ---- C9
\* setProjectId changes the project identifier and nothing else: the
\* memoized table name and the cached summary stay. A fetch that finds a
\* table memoized sends no listing request, whatever project the name was
\* resolved under: it queries the project that is set now, with that name.
C9_SetProjectIdKeepsCaches ==
    [][/\ last'.op = "setProjectId" =>
            UNCHANGED <<cachedTableName, lastCost, strictSsl, callers>>
       /\ (last'.op = "discover" /\ cachedTableName # <<>>) =>
            /\ callers'[last'.by].pc = "querying"
            /\ Get(callers'[last'.by].req).method = "POST"
            /\ Get(callers'[last'.by].req).project = projectId
            /\ Get(callers'[last'.by].req).table = cachedTableName]_vars

\* After setProjectId, a fetch has just sent its query to the new project
\* with the table name resolved under the old one, and no listing request.
C9_Witness ==
    /\ last.op = "discover"
    /\ callers[last.by].pc = "querying"
    /\ Get(callers[last.by].req).project = projectId
    /\ projectId # resolvedUnder
    /\ Get(callers[last.by].req).table = cachedTableName
    /\ \A c \in Callers : callers[c].pc # "listing"

\* ---- C10
\* Every request in flight, the table-listing GET and the query POST alike,
\* carries the relaxed-certificate-validation option exactly when strictSsl
\* is off.
C10_BothCallsRelaxed ==
    \A c \in Callers :
        IsSome(callers[c].req) => Get(callers[c].req).relaxed = ~strictSsl

\* ---- C11
\* A string that is no number in an amount slot of a five-slot row counts
\* as an absent value: the fetch returns, and that amount, in the summary
\* returned and in lastCost, is 0 and never NaN.
C11_NonNumericIsZero ==
    (/\ last.op = "rows"
     /\ ~NoUsableRow(last.input.rows)) =>
        LET f == Get(last.input.rows)[1].f
            cost == Get(last.result.cost)
            amounts == <<cost.amount, cost.lastMonthAmount,
                         cost.last3MonthsAmount, cost.yearlyAmount>>
        IN  /\ last.result.kind = "returned"
            /\ lastCost = last.result.cost
            /\ \A i \in 1..4 :
                  /\ ~amounts[i].nan
                  /\ f[i] = VNotANumber =>
                        amounts[i] = [nan |-> FALSE, m |-> 0, e |-> 0]

\* ---- C12
\* However the first fetch of initialize, the timer ticks, the
\* gcpBilling.refresh command and the menu's refresh interleave, at most one
\* fetchCurrentMonthCost call is in flight on any BillingService instance.
C12_OneFetchInFlight ==
    \A i \in DOMAIN inFlight : inFlight[i] <= 1

\* ---- C13
\* After any activate, configuration changes and deactivate, at most one
\* interval timer is active, and it is the one the module holds; none is
\* active while initialize has found no project ID, nor after deactivate.
C13_AtMostOneTimer ==
    /\ Cardinality(timers) <= 1
    /\ \A h \in timers : h = refreshInterval
    /\ (phase = "active" /\ billingService = 0) => timers = {}
    /\ phase = "deactivated" => timers = {}

\* A configuration change has replaced the service and its timer: the
\* second service's timer is the only one active.
C13_Witness ==
    /\ phase = "active"
    /\ created >= 2
    /\ billingService = created
    /\ timers = {created}

\* ---- C14
\* Once initialize has replaced or dropped the module-level service, a
\* fetch started on the discarded instance never puts its cost or its error
\* in the status bar; with no service (no project ID), the bar shows no cost.
C14_NoStaleDisplay ==
    /\ statusBar.text \in {"cost", "error"} => statusBar.inst = billingService
    /\ billingService = 0 => statusBar.text # "cost"

====
